---- MODULE Spec2Model ----
(***************************************************************************)
(* Device Authorization Grant (RFC 8628) subsystem of tsz-idp:             *)
(* code generator, DynamoDB code store, and the three Lambda handlers      *)
(* issue (POST /device/code), poll (POST /device/token) and authorize      *)
(* (POST /device/authorize).                                               *)
(*                                                                         *)
(* Every handler is cut at its awaits on the store: a request is a small   *)
(* process whose steps are the store operations (each atomic at the        *)
(* table) and the synchronous code that reads the clock between them.      *)
(***************************************************************************)
EXTENDS Integers, Sequences, FiniteSets, TLC

(***************************************************************************)
(* Bounds of the model.                                                    *)
(***************************************************************************)
MaxReqs == 4
MaxTicks == 2
Procs == {1, 2}

(***************************************************************************)
(* Program constants.                                                      *)
(***************************************************************************)
DEVICE_CODE_EXPIRATION_SECONDS == 600
POLLING_INTERVAL_SECONDS == 5
TTL_SKEW_SECONDS == 60
USER_CODE_LENGTH == 8
DEVICE_CODE_LENGTH == 32
TOKEN_EXPIRES_IN == 3600

USER_CODE_CHARS ==
  << "A","B","C","D","E","F","G","H","J","K","M","N","P","Q","R","S",
     "T","U","V","W","X","Y","Z","2","3","4","5","6","7","8","9" >>

HEX_CHARS ==
  << "0","1","2","3","4","5","6","7","8","9","a","b","c","d","e","f" >>

LOWER == << "a","b","c","d","e","f","g","h","i","j","k","l","m",
            "n","o","p","q","r","s","t","u","v","w","x","y","z" >>
UPPER == << "A","B","C","D","E","F","G","H","I","J","K","L","M",
            "N","O","P","Q","R","S","T","U","V","W","X","Y","Z" >>

GRANT_TYPE == "urn:ietf:params:oauth:grant-type:device_code"
DEFAULT_SCOPE == "openid email profile"
VERIFICATION_URI == "https://thesafezone.eu/activate"
USER_POOL_ID == "pool"
USER_POOL_CLIENT_ID == "vr-client"

Null == [null |-> TRUE]

Range(s) == { s[i] : i \in DOMAIN s }

(***************************************************************************)
(* Code generator (code-generator.ts).  Strings are sequences of           *)
(* one-character strings.                                                  *)
(***************************************************************************)
toUpperCase(c) ==
  IF \E i \in DOMAIN LOWER : LOWER[i] = c
    THEN UPPER[CHOOSE i \in DOMAIN LOWER : LOWER[i] = c]
    ELSE c

RECURSIVE hexOfBytes(_)
hexOfBytes(bytes) ==
  IF bytes = << >> THEN << >>
  ELSE << HEX_CHARS[(Head(bytes) \div 16) + 1], HEX_CHARS[(Head(bytes) % 16) + 1] >>
       \o hexOfBytes(Tail(bytes))

generateDeviceCode(bytes) == hexOfBytes(SubSeq(bytes, 1, DEVICE_CODE_LENGTH \div 2))

\* mutant: the code is returned without the separator
generateUserCode_noSeparator(bytes) ==
  [ i \in 1..USER_CODE_LENGTH |->
      USER_CODE_CHARS[(bytes[i] % Len(USER_CODE_CHARS)) + 1] ]

generateUserCode(bytes) ==
  LET code == [ i \in 1..USER_CODE_LENGTH |->
                  USER_CODE_CHARS[(bytes[i] % Len(USER_CODE_CHARS)) + 1] ]
  IN  SubSeq(code, 1, 3) \o << "-" >> \o SubSeq(code, 4, USER_CODE_LENGTH)

isValidDeviceCode(code) ==
  /\ Len(code) = 32
  /\ \A i \in DOMAIN code :
        \/ code[i] \in Range(HEX_CHARS)
        \/ code[i] \in { "A","B","C","D","E","F" }

RECURSIVE normalizeUserCode(_)
normalizeUserCode(code) ==
  IF code = << >> THEN << >>
  ELSE IF Head(code) = "-" THEN normalizeUserCode(Tail(code))
  ELSE << toUpperCase(Head(code)) >> \o normalizeUserCode(Tail(code))

\* mutant: the code is not upper-cased before it is checked
isValidUserCode_caseSensitive(code) ==
  LET normalized == SelectSeq(code, LAMBDA c : c # "-")
  IN  /\ Len(normalized) = USER_CODE_LENGTH
      /\ \A i \in DOMAIN normalized : normalized[i] \in Range(USER_CODE_CHARS)

isValidUserCode(code) ==
  LET normalized == normalizeUserCode(code)
  IN  /\ Len(normalized) = USER_CODE_LENGTH
      /\ \A i \in DOMAIN normalized : normalized[i] \in Range(USER_CODE_CHARS)

(***************************************************************************)
(* Values of crypto.randomBytes the model draws from.                      *)
(***************************************************************************)
DeviceBytes == { [ i \in 1..16 |-> 0 ], [ i \in 1..16 |-> 171 ] }
UserBytes   == { [ i \in 1..8 |-> 0 ], [ i \in 1..8 |-> 31 + i ] }

DeviceCodes == { generateDeviceCode(b) : b \in DeviceBytes }
UserCodes   == { generateUserCode(b) : b \in UserBytes }

(***************************************************************************)
(* DynamoDB number attributes are written with toString and read back      *)
(* with parseInt(_, 10).                                                   *)
(***************************************************************************)
DIGITS == << "0","1","2","3","4","5","6","7","8","9" >>

RECURSIVE toString(_)
toString(n) ==
  IF n < 10 THEN << DIGITS[n + 1] >>
  ELSE toString(n \div 10) \o << DIGITS[(n % 10) + 1] >>

RECURSIVE parseInt(_)
parseInt(s) ==
  IF s = << >> THEN 0
  ELSE parseInt(SubSeq(s, 1, Len(s) - 1)) * 10
       + ((CHOOSE i \in DOMAIN DIGITS : DIGITS[i] = s[Len(s)]) - 1)

(***************************************************************************)
(* Code store (dynamodb-client.ts).  The table is a set of items, at most  *)
(* one per deviceCode (the partition key); an item is a function from      *)
(* attribute names to values.  Each operator is one DynamoDB command.      *)
(***************************************************************************)
REQUIRED_ATTRS ==
  { "deviceCode", "userCode", "clientId", "scope", "expiresAt",
    "interval", "status", "ttl", "createdAt" }

HasKey(tbl, deviceCode) == \E it \in tbl : it.deviceCode = deviceCode

ItemOf(tbl, deviceCode) == CHOOSE it \in tbl : it.deviceCode = deviceCode

\* the item storeDeviceCode builds from a record
itemOfRecord(record) ==
  [ a \in { "deviceCode", "userCode", "clientId", "scope", "expiresAt",
            "interval", "status", "ttl", "createdAt" }
          \cup (IF record.userId # "" THEN { "userId" } ELSE {})
          \cup (IF record.tokens # Null THEN { "tokens" } ELSE {}) |->
      CASE a = "expiresAt" -> toString(record.expiresAt)
        [] a = "interval"  -> toString(record.interval)
        [] a = "ttl"       -> toString(record.ttl)
        [] a = "createdAt" -> toString(record.createdAt)
        [] OTHER           -> record[a] ]

\* mutant: PutItem without the condition replaces the item under the key
storeDeviceCode_unconditional(tbl, record) ==
  [ threw |-> FALSE,
    table |-> { it \in tbl : it.deviceCode # record.deviceCode }
                \cup { itemOfRecord(record) } ]

\* PutItem with ConditionExpression attribute_not_exists(deviceCode)
storeDeviceCode(tbl, record) ==
  IF HasKey(tbl, record.deviceCode)
    THEN [ threw |-> TRUE,  table |-> tbl ]
    ELSE [ threw |-> FALSE, table |-> tbl \cup { itemOfRecord(record) } ]

\* reading item.X.S of an absent attribute X throws a TypeError
mapItemToRecord(item) ==
  IF REQUIRED_ATTRS \subseteq DOMAIN item
    THEN [ threw |-> FALSE,
           record |->
             [ deviceCode |-> item.deviceCode,
               userCode   |-> item.userCode,
               clientId   |-> item.clientId,
               scope      |-> item.scope,
               expiresAt  |-> parseInt(item.expiresAt),
               interval   |-> parseInt(item.interval),
               status     |-> item.status,
               ttl        |-> parseInt(item.ttl),
               createdAt  |-> parseInt(item.createdAt),
               userId     |-> IF "userId" \in DOMAIN item THEN item.userId ELSE "",
               tokens     |-> IF "tokens" \in DOMAIN item THEN item.tokens ELSE Null ] ]
    ELSE [ threw |-> TRUE, record |-> Null ]

\* GetItem by the partition key, then mapItemToRecord
getDeviceCodeByDeviceCode(tbl, deviceCode) ==
  IF ~HasKey(tbl, deviceCode)
    THEN [ threw |-> FALSE, record |-> Null ]
    ELSE mapItemToRecord(ItemOf(tbl, deviceCode))

\* the items the userCode-index holds under one userCode; Query with
\* Limit 1 returns any one of them
userCodeIndex(tbl, userCode) ==
  { it \in tbl : "userCode" \in DOMAIN it /\ it.userCode = userCode }

\* mutant: only the status is SET
updateDeviceCodeStatus_statusOnly(tbl, deviceCode, status, userId, tokens) ==
  LET base == IF HasKey(tbl, deviceCode)
                THEN ItemOf(tbl, deviceCode)
                ELSE [ a \in { "deviceCode" } |-> deviceCode ]
      item == [ a \in DOMAIN base \cup { "status" } |->
                  IF a = "status" THEN status ELSE base[a] ]
  IN  { it \in tbl : it.deviceCode # deviceCode } \cup { item }

\* UpdateItem SET #status, userId, tokens; there is no ConditionExpression,
\* so an absent key is created with the key and the SET attributes only
updateDeviceCodeStatus(tbl, deviceCode, status, userId, tokens) ==
  LET base == IF HasKey(tbl, deviceCode)
                THEN ItemOf(tbl, deviceCode)
                ELSE [ a \in { "deviceCode" } |-> deviceCode ]
      attrs == { "status" }
                 \cup (IF userId # "" THEN { "userId" } ELSE {})
                 \cup (IF tokens # Null THEN { "tokens" } ELSE {})
      item == [ a \in DOMAIN base \cup attrs |->
                  CASE a = "status" -> status
                    [] a = "userId" /\ userId # "" -> userId
                    [] a = "tokens" /\ tokens # Null -> tokens
                    [] OTHER -> base[a] ]
  IN  { it \in tbl : it.deviceCode # deviceCode } \cup { item }

\* mutant: the item is kept and marked expired
deleteDeviceCode_marksExpired(tbl, deviceCode) ==
  { IF it.deviceCode = deviceCode
      THEN [ a \in DOMAIN it |-> IF a = "status" THEN "expired" ELSE it[a] ]
      ELSE it : it \in tbl }

\* mutant: the delete is not carried out
deleteDeviceCode_keeps(tbl, deviceCode) == tbl

\* DeleteItem by the partition key, unconditional
deleteDeviceCode(tbl, deviceCode) ==
  { it \in tbl : it.deviceCode # deviceCode }

(***************************************************************************)
(* HTTP responses.                                                         *)
(***************************************************************************)
NO_STORE_HEADERS ==
  [ ContentType |-> "application/json", CacheControl |-> "no-store" ]

errorResponse(statusCode, error, errorDescription) ==
  [ statusCode |-> statusCode,
    headers    |-> NO_STORE_HEADERS,
    body       |-> [ error |-> error, error_description |-> errorDescription ] ]

tokenResponse(tokens) ==
  [ statusCode |-> 200,
    headers    |-> NO_STORE_HEADERS,
    body       |-> [ access_token  |-> tokens.accessToken,
                     id_token      |-> tokens.idToken,
                     refresh_token |-> tokens.refreshToken,
                     token_type    |-> "Bearer",
                     expires_in    |-> TOKEN_EXPIRES_IN ] ]

authorizeSuccessResponse ==
  [ statusCode |-> 200,
    headers    |-> NO_STORE_HEADERS,
    body       |-> [ success |-> TRUE, message |-> "Device authorized successfully" ] ]

deviceCodeResponse(deviceCode, userCodeFormatted) ==
  [ statusCode |-> 200,
    headers    |-> NO_STORE_HEADERS,
    body       |-> [ device_code      |-> deviceCode,
                     user_code        |-> userCodeFormatted,
                     verification_uri |-> VERIFICATION_URI,
                     expires_in       |-> DEVICE_CODE_EXPIRATION_SECONDS,
                     interval         |-> POLLING_INTERVAL_SECONDS ] ]

\* index.ts: the template `Unknown endpoint: ${method} ${path}`
unknownEndpointMessage(method, path) ==
  CASE method = "GET" /\ path = "/device/code"   -> "Unknown endpoint: GET /device/code"
    [] method = "POST" /\ path = "/device/other" -> "Unknown endpoint: POST /device/other"
    [] OTHER                                      -> "Unknown endpoint"

\* index.ts: the response of the entry point when no route matches
unknownEndpointResponse(method, path) ==
  [ statusCode |-> 404,
    headers    |-> [ ContentType |-> "application/json" ],
    body       |-> [ error |-> "not_found",
                     error_description |-> unknownEndpointMessage(method, path) ] ]

\* index.ts: the route the entry point takes
route(method, path) ==
  IF method = "POST" /\ path = "/device/code" THEN "issue"
  ELSE IF method = "POST" /\ path = "/device/token" THEN "poll"
  ELSE IF method = "POST" /\ path = "/device/authorize" THEN "authorize"
  ELSE "unknown"

\* mutant: the message of the caught error is passed on
INTERNAL_ERROR_leaksFault == errorResponse(500, "server_error", "Device code already exists")

\* the response of the catch-all of each handler
INTERNAL_ERROR == errorResponse(500, "server_error", "Internal server error")

IsError(r, error) == "error" \in DOMAIN r.body /\ r.body.error = error

HasTokens(r) == "access_token" \in DOMAIN r.body

(***************************************************************************)
(* The synchronous decisions of the handlers, as functions of what the     *)
(* handler has read.  A decision is the response to return, or "go" to     *)
(* continue with the next store operation.                                 *)
(***************************************************************************)
Return(r) == [ go |-> FALSE, resp |-> r ]
Continue  == [ go |-> TRUE,  resp |-> Null ]

\* device-code.ts lines 26-40
issueValidate(request) ==
  IF request.body = "missing"
    THEN Return(errorResponse(400, "invalid_request", "Request body is required"))
  ELSE IF request.body = "badjson"
    THEN Return(errorResponse(400, "invalid_request", "Invalid JSON in request body"))
  ELSE IF request.client_id = ""
    THEN Return(errorResponse(400, "invalid_request", "client_id is required"))
  ELSE Continue

\* mutant: the deadline stored is the time-to-live
issueRecord_deadlineIsTtl(request, deviceBytes, userBytes, clock) ==
  LET deviceCode == generateDeviceCode(deviceBytes)
      ttl == clock + DEVICE_CODE_EXPIRATION_SECONDS + TTL_SKEW_SECONDS
  IN  [ deviceCode |-> deviceCode,
        userCode   |-> normalizeUserCode(generateUserCode(userBytes)),
        clientId   |-> request.client_id,
        scope      |-> IF request.scope # "" THEN request.scope ELSE DEFAULT_SCOPE,
        expiresAt  |-> ttl,
        interval   |-> POLLING_INTERVAL_SECONDS,
        status     |-> "pending",
        ttl        |-> ttl,
        createdAt  |-> clock,
        userId     |-> "",
        tokens     |-> Null ]

\* device-code.ts lines 43-65
issueRecord(request, deviceBytes, userBytes, clock) ==
  LET deviceCode         == generateDeviceCode(deviceBytes)
      userCodeFormatted  == generateUserCode(userBytes)
      userCodeNormalized == normalizeUserCode(userCodeFormatted)
      scope     == IF request.scope # "" THEN request.scope ELSE DEFAULT_SCOPE
      expiresAt == clock + DEVICE_CODE_EXPIRATION_SECONDS
      ttl       == expiresAt + TTL_SKEW_SECONDS
  IN  [ deviceCode |-> deviceCode,
        userCode   |-> userCodeNormalized,
        clientId   |-> request.client_id,
        scope      |-> scope,
        expiresAt  |-> expiresAt,
        interval   |-> POLLING_INTERVAL_SECONDS,
        status     |-> "pending",
        ttl        |-> ttl,
        createdAt  |-> clock,
        userId     |-> "",
        tokens     |-> Null ]

\* device-token.ts lines 30-55
pollValidate(request) ==
  IF request.body = "missing"
    THEN Return(errorResponse(400, "invalid_request", "Request body is required"))
  ELSE IF request.body = "badjson"
    THEN Return(errorResponse(400, "invalid_request", "Invalid JSON in request body"))
  ELSE IF request.grant_type # GRANT_TYPE
    THEN Return(errorResponse(400, "unsupported_grant_type",
                  "grant_type must be urn:ietf:params:oauth:grant-type:device_code"))
  ELSE IF request.device_code = << >> \/ ~isValidDeviceCode(request.device_code)
    THEN Return(errorResponse(400, "invalid_request", "Invalid device_code"))
  ELSE IF request.client_id = ""
    THEN Return(errorResponse(400, "invalid_request", "client_id is required"))
  ELSE Continue

\* mutant: the client_id comparison is missing
pollLookupDecision_noClientCheck(record, client_id) ==
  IF record = Null
    THEN Return(errorResponse(400, "invalid_grant", "Device code not found"))
  ELSE Continue

\* device-token.ts lines 60-67: after the lookup, before the clock is read
pollLookupDecision(record, client_id) ==
  IF record = Null
    THEN Return(errorResponse(400, "invalid_grant", "Device code not found"))
  ELSE IF record.clientId # client_id
    THEN Return(errorResponse(400, "invalid_grant", "client_id mismatch"))
  ELSE Continue

\* device-token.ts lines 72-74 and 114-116
pollExpired ==
  [ del |-> TRUE,
    resp |-> errorResponse(400, "expired_token", "Device code has expired") ]

\* mutant: the tokens are answered without deleting the record
pollTokens_noDelete(record) ==
  IF record.tokens = Null
    THEN [ del |-> FALSE,
           resp |-> errorResponse(500, "server_error", "Tokens not available") ]
    ELSE [ del |-> FALSE, resp |-> tokenResponse(record.tokens) ]

\* device-token.ts lines 84-106: the authorized case
pollTokens(record) ==
  IF record.tokens = Null
    THEN [ del |-> FALSE,
           resp |-> errorResponse(500, "server_error", "Tokens not available") ]
    ELSE [ del |-> TRUE, resp |-> tokenResponse(record.tokens) ]

\* mutant: the denied case answers without deleting the record
pollStatusSwitch_deniedKeeps(record) ==
  IF record.status = "pending"
    THEN [ del |-> FALSE,
           resp |-> errorResponse(400, "authorization_pending",
                                  "Authorization pending. Continue polling.") ]
  ELSE IF record.status = "authorized"
    THEN pollTokens(record)
  ELSE IF record.status = "denied"
    THEN [ del |-> FALSE,
           resp |-> errorResponse(400, "access_denied", "User denied authorization") ]
  ELSE IF record.status = "expired"
    THEN pollExpired
  ELSE [ del |-> FALSE,
         resp |-> errorResponse(500, "server_error", "Unknown device code status") ]

\* mutant: the pending case falls through into the authorized case
pollStatusSwitch_pendingFallsThrough(record) ==
  IF record.status \in { "pending", "authorized" }
    THEN pollTokens(record)
  ELSE IF record.status = "denied"
    THEN [ del |-> TRUE,
           resp |-> errorResponse(400, "access_denied", "User denied authorization") ]
  ELSE IF record.status = "expired"
    THEN pollExpired
  ELSE [ del |-> FALSE,
         resp |-> errorResponse(500, "server_error", "Unknown device code status") ]

\* device-token.ts lines 78-120: the switch on the stored status; del says
\* whether deleteDeviceCode is awaited before the response
pollStatusSwitch(record) ==
  IF record.status = "pending"
    THEN [ del |-> FALSE,
           resp |-> errorResponse(400, "authorization_pending",
                                  "Authorization pending. Continue polling.") ]
  ELSE IF record.status = "authorized"
    THEN pollTokens(record)
  ELSE IF record.status = "denied"
    THEN [ del |-> TRUE,
           resp |-> errorResponse(400, "access_denied", "User denied authorization") ]
  ELSE IF record.status = "expired"
    THEN pollExpired
  ELSE [ del |-> FALSE,
         resp |-> errorResponse(500, "server_error", "Unknown device code status") ]

\* mutant: the status is examined before the expiry
pollStatusDecision_statusFirst(record, clock) ==
  IF record.status = "authorized"
    THEN pollStatusSwitch(record)
  ELSE IF clock > record.expiresAt
    THEN pollExpired
  ELSE pollStatusSwitch(record)

\* mutant: the deadline compared is the ttl attribute
pollStatusDecision_ttlDeadline(record, clock) ==
  IF clock > record.ttl
    THEN pollExpired
    ELSE pollStatusSwitch(record)

\* device-token.ts lines 69-120: the expiry on the clock, then the status
pollStatusDecision(record, clock) ==
  IF clock > record.expiresAt
    THEN pollExpired
    ELSE pollStatusSwitch(record)

\* CognitoJwtVerifier.verify: the subject of a valid access token, "" when
\* verification throws
verify(access_token) ==
  CASE access_token = "at1" -> "u1"
    [] access_token = "at2" -> "u2"
    [] OTHER -> ""

\* getVerifier: null unless both pool settings are present
getVerifier == USER_POOL_ID # "" /\ USER_POOL_CLIENT_ID # ""

\* mutant: a failed verification is not answered
authorizeValidate_noVerify(request) ==
  IF request.body = "missing"
    THEN Return(errorResponse(400, "invalid_request", "Request body is required"))
  ELSE IF request.body = "badjson"
    THEN Return(errorResponse(400, "invalid_request", "Invalid JSON in request body"))
  ELSE IF request.user_code = << >> \/ ~isValidUserCode(request.user_code)
    THEN Return(errorResponse(400, "invalid_request", "Invalid user_code"))
  ELSE IF request.access_token = ""
    THEN Return(errorResponse(400, "invalid_request", "access_token is required"))
  ELSE IF request.id_token = ""
    THEN Return(errorResponse(400, "invalid_request", "id_token is required"))
  ELSE IF request.refresh_token = ""
    THEN Return(errorResponse(400, "invalid_request", "refresh_token is required"))
  ELSE IF ~getVerifier
    THEN Return(errorResponse(500, "server_error", "Server configuration error"))
  ELSE Continue

\* device-authorize.ts lines 50-91
authorizeValidate(request) ==
  IF request.body = "missing"
    THEN Return(errorResponse(400, "invalid_request", "Request body is required"))
  ELSE IF request.body = "badjson"
    THEN Return(errorResponse(400, "invalid_request", "Invalid JSON in request body"))
  ELSE IF request.user_code = << >> \/ ~isValidUserCode(request.user_code)
    THEN Return(errorResponse(400, "invalid_request", "Invalid user_code"))
  ELSE IF request.access_token = ""
    THEN Return(errorResponse(400, "invalid_request", "access_token is required"))
  ELSE IF request.id_token = ""
    THEN Return(errorResponse(400, "invalid_request", "id_token is required"))
  ELSE IF request.refresh_token = ""
    THEN Return(errorResponse(400, "invalid_request", "refresh_token is required"))
  ELSE IF ~getVerifier
    THEN Return(errorResponse(500, "server_error", "Server configuration error"))
  ELSE IF verify(request.access_token) = ""
    THEN Return(errorResponse(401, "invalid_token", "Access token is invalid or expired"))
  ELSE Continue

\* the template `Device code is already ${record.status}`
alreadyMessage(status) ==
  CASE status = "authorized" -> "Device code is already authorized"
    [] status = "denied"     -> "Device code is already denied"
    [] status = "expired"    -> "Device code is already expired"
    [] OTHER                 -> "Device code is already in an unknown status"

\* mutant: the expiry comparison of authorize is inclusive
authorizeDecision_inclusiveExpiry(record, clock) ==
  IF record = Null
    THEN Return(errorResponse(400, "invalid_grant", "User code not found"))
  ELSE IF clock >= record.expiresAt
    THEN Return(errorResponse(400, "expired_token", "User code has expired"))
  ELSE IF record.status # "pending"
    THEN Return(errorResponse(400, "invalid_grant", alreadyMessage(record.status)))
  ELSE Continue

\* mutant: the status check is missing
authorizeDecision_noStatusCheck(record, clock) ==
  IF record = Null
    THEN Return(errorResponse(400, "invalid_grant", "User code not found"))
  ELSE IF clock > record.expiresAt
    THEN Return(errorResponse(400, "expired_token", "User code has expired"))
  ELSE Continue

\* mutant: the expiry check is missing
authorizeDecision_noExpiry(record, clock) ==
  IF record = Null
    THEN Return(errorResponse(400, "invalid_grant", "User code not found"))
  ELSE IF record.status # "pending"
    THEN Return(errorResponse(400, "invalid_grant", alreadyMessage(record.status)))
  ELSE Continue

\* device-authorize.ts lines 99-113: after the lookup, on the clock
authorizeDecision(record, clock) ==
  IF record = Null
    THEN Return(errorResponse(400, "invalid_grant", "User code not found"))
  ELSE IF clock > record.expiresAt
    THEN Return(errorResponse(400, "expired_token", "User code has expired"))
  ELSE IF record.status # "pending"
    THEN Return(errorResponse(400, "invalid_grant", alreadyMessage(record.status)))
  ELSE Continue

(***************************************************************************)
(* Request bodies the clients send.                                        *)
(***************************************************************************)
ClientIds == { "c1", "c2" }

IssueRequests ==
  { [ body |-> "json",    client_id |-> "", scope |-> "" ],
    [ body |-> "json",    client_id |-> "c1", scope |-> "" ] }

BadDeviceCode == << "z", "z" >>

\* events the entry point has no route for
UnroutedEvents ==
  { [ method |-> "GET",  path |-> "/device/code" ],
    [ method |-> "POST", path |-> "/device/other" ] }

\* polls with another grant type, for a malformed device code, for a
\* well-formed one that was never issued, and for the issued one by either
\* client
PollRequests ==
  { [ body |-> "json", grant_type |-> "authorization_code",
      device_code |-> generateDeviceCode([ i \in 1..16 |-> 171 ]), client_id |-> "c1" ],
    [ body |-> "json", grant_type |-> GRANT_TYPE,
      device_code |-> BadDeviceCode, client_id |-> "c1" ],
    [ body |-> "json", grant_type |-> GRANT_TYPE,
      device_code |-> generateDeviceCode([ i \in 1..16 |-> 0 ]), client_id |-> "c1" ] }
  \cup
  { [ body |-> "json", grant_type |-> GRANT_TYPE,
      device_code |-> generateDeviceCode([ i \in 1..16 |-> 171 ]), client_id |-> c ] :
      c \in ClientIds }

TokenBundles ==
  { [ access_token |-> "at1", id_token |-> "id1", refresh_token |-> "rt1" ],
    [ access_token |-> "at2", id_token |-> "id2", refresh_token |-> "rt2" ],
    [ access_token |-> "bad", id_token |-> "id1", refresh_token |-> "rt1" ] }

\* user codes as typed by the user: as displayed, in lower case without
\* the separator, and with an excluded character
UserCodeInputs ==
  { generateUserCode([ i \in 1..8 |-> 0 ]),
    << "a","a","a","a","a","a","a","a" >>,
    << "A","A","A","-","A","A","A","A","0" >> }

\* the displayed code with a valid and with an invalid access token, the
\* lower-case code with the token of another user, and the malformed code
AuthorizeRequests ==
  { r \in { [ body |-> "json", user_code |-> u, access_token |-> b.access_token,
              id_token |-> b.id_token, refresh_token |-> b.refresh_token ] :
              u \in UserCodeInputs, b \in TokenBundles } :
      \/ r.user_code = generateUserCode([ i \in 1..8 |-> 0 ])
           /\ r.access_token \in { "at1", "bad" }
      \/ r.user_code = << "a","a","a","a","a","a","a","a" >>
           /\ r.access_token = "at2"
      \/ ~isValidUserCode(r.user_code) /\ r.access_token = "at1" }

tokensOf(request) ==
  [ accessToken  |-> request.access_token,
    idToken      |-> request.id_token,
    refreshToken |-> request.refresh_token ]

(***************************************************************************)
(* State.                                                                  *)
(*   table   the DynamoDB table                                            *)
(*   now     the wall clock, in seconds                                    *)
(*   kind, pc, req, rec, lnow, aux, resp                                   *)
(*           per invocation: the handler, its position, the request body,  *)
(*           the record it holds, its local `now`, the formatted user code *)
(*           (issue), and the response once returned                       *)
(*   ops     history: the store operations the invocation has performed    *)
(*   hist    history per device code, for the record last stored under it: *)
(*           its expiresAt and clientId, how many authorize calls answered *)
(*           success, how many polls answered with tokens, and the tokens  *)
(*           of the last success                                           *)
(*   seen    history: hist of the record at the invocation's lookup,       *)
(*           whether the clock was past expiresAt at that lookup, and      *)
(*           whether a newer record was stored under the device code since *)
(*   ticks, reqs   counters that bound the run                             *)
(*   given, got    the arguments and the results of the code generator and *)
(*           the validators when they are called on their own              *)
(***************************************************************************)
VARIABLES table, now, kind, pc, req, rec, lnow, aux, resp, ops, hist, seen,
          ticks, reqs, given, got

vars == << table, now, kind, pc, req, rec, lnow, aux, resp, ops, hist, seen,
           ticks, reqs, given, got >>

NoHist ==
  [ issued |-> FALSE, authorized |-> 0, delivered |-> 0, tokens |-> Null,
    expiresAt |-> 0, clientId |-> "" ]

NoSeen == [ h |-> NoHist, late |-> FALSE, stale |-> FALSE ]

NoClock == 0 - 1

NoGiven == [ seed |-> 0, a |-> << >>, b |-> << >> ]

NoGot == [ call |-> "none" ]

\* history counters saturate
Bump(n) == IF n < 2 THEN n + 1 ELSE n

\* no invocation yet, the clock at its origin
NoInvocation ==
  /\ now = 0
  /\ kind = [ p \in Procs |-> "idle" ]
  /\ pc = [ p \in Procs |-> "idle" ]
  /\ req = [ p \in Procs |-> Null ]
  /\ rec = [ p \in Procs |-> Null ]
  /\ lnow = [ p \in Procs |-> NoClock ]
  /\ aux = [ p \in Procs |-> << >> ]
  /\ resp = [ p \in Procs |-> Null ]
  /\ ops = [ p \in Procs |-> << >> ]
  /\ seen = [ p \in Procs |-> NoSeen ]
  /\ ticks = 0
  /\ reqs = 0

\* no invocation yet and an empty table
Idle ==
  /\ NoInvocation
  /\ table = {}
  /\ hist = [ d \in DeviceCodes |-> NoHist ]

Init ==
  /\ Idle
  /\ given = NoGiven
  /\ got = NoGot

\* a response is handed to the caller before anything else happens
NoneDone == \A q \in Procs : pc[q] # "done"

\* an invocation is created in the lowest free slot
CanStart(p) ==
  /\ NoneDone
  /\ pc[p] = "idle"
  /\ reqs < MaxReqs
  /\ \A q \in Procs : q < p => pc[q] # "idle"

Begin(p, k, request, decision, nextPc) ==
  /\ kind' = [ kind EXCEPT ![p] = k ]
  /\ req' = [ req EXCEPT ![p] = request ]
  /\ pc' = [ pc EXCEPT ![p] = IF decision.go THEN nextPc ELSE "done" ]
  /\ resp' = [ resp EXCEPT ![p] = decision.resp ]
  /\ reqs' = reqs + 1

Done(p, response) ==
  /\ pc' = [ pc EXCEPT ![p] = "done" ]
  /\ resp' = [ resp EXCEPT ![p] = response ]

Did(p, op) == ops' = [ ops EXCEPT ![p] = Append(@, op) ]

\* the invocations that hold a record read under device code d
Holders(d) == { q \in Procs : rec[q] # Null /\ rec[q].deviceCode = d }

(***************************************************************************)
(* issue: POST /device/code (handleDeviceCodeRequest)                      *)
(***************************************************************************)
\* lines 26-65: validate, generate the codes, read the clock, build the record
StartIssue(p, deviceByteSet, userByteSet) ==
  /\ CanStart(p)
  /\ \E request \in IssueRequests, deviceBytes \in deviceByteSet, userBytes \in userByteSet :
       LET decision == issueValidate(request)
       IN  /\ Begin(p, "issue", request, decision, "store")
           /\ rec' = [ rec EXCEPT ![p] =
                         IF decision.go
                           THEN issueRecord(request, deviceBytes, userBytes, now)
                           ELSE Null ]
           /\ lnow' = [ lnow EXCEPT ![p] = IF decision.go THEN now ELSE NoClock ]
           /\ aux' = [ aux EXCEPT ![p] =
                         IF decision.go THEN generateUserCode(userBytes) ELSE << >> ]
  /\ UNCHANGED << given, got, table, now, ops, hist, seen, ticks >>

\* lines 68-92: storeDeviceCode, then the response; a failed condition
\* throws into the catch-all
IssueStore(p) ==
  /\ NoneDone
  /\ kind[p] = "issue" /\ pc[p] = "store"
  /\ LET result == storeDeviceCode(table, rec[p])
         d == rec[p].deviceCode
     IN  /\ table' = result.table
         /\ IF result.threw
              THEN /\ Done(p, INTERNAL_ERROR)
                   /\ Did(p, "put:exists")
                   /\ UNCHANGED << given, got, hist, seen >>
              ELSE /\ Done(p, deviceCodeResponse(d, aux[p]))
                   /\ Did(p, "put")
                   /\ hist' = [ hist EXCEPT ![d] =
                                  [ NoHist EXCEPT !.issued = TRUE,
                                                  !.expiresAt = rec[p].expiresAt,
                                                  !.clientId = rec[p].clientId ] ]
                   /\ seen' = [ q \in Procs |->
                                  IF q # p /\ q \in Holders(d)
                                    THEN [ seen[q] EXCEPT !.stale = TRUE ]
                                    ELSE seen[q] ]
  /\ UNCHANGED << given, got, now, kind, req, rec, lnow, aux, ticks, reqs >>

(***************************************************************************)
(* poll: POST /device/token (handleDeviceTokenRequest)                     *)
(***************************************************************************)
\* lines 30-55
StartPoll(p) ==
  /\ CanStart(p)
  /\ \E request \in PollRequests :
       Begin(p, "poll", request, pollValidate(request), "get")
  /\ UNCHANGED << given, got, table, now, rec, lnow, aux, ops, hist, seen, ticks >>

\* lines 58-67: getDeviceCodeByDeviceCode, then the checks that need no clock
PollGet(p) ==
  /\ NoneDone
  /\ kind[p] = "poll" /\ pc[p] = "get"
  /\ LET result == getDeviceCodeByDeviceCode(table, req[p].device_code)
         decision == pollLookupDecision(result.record, req[p].client_id)
     IN  IF result.threw
           THEN /\ Done(p, INTERNAL_ERROR)
                /\ Did(p, "get:threw")
                /\ UNCHANGED << given, got, rec, seen >>
           ELSE /\ rec' = [ rec EXCEPT ![p] = result.record ]
                /\ seen' = [ seen EXCEPT ![p] =
                               [ h     |-> hist[req[p].device_code],
                                 late  |-> /\ result.record # Null
                                           /\ now > result.record.expiresAt,
                                 stale |-> FALSE ] ]
                /\ Did(p, "get")
                /\ IF decision.go
                     THEN /\ pc' = [ pc EXCEPT ![p] = "check" ]
                          /\ resp' = resp
                     ELSE Done(p, decision.resp)
  /\ UNCHANGED << given, got, table, now, kind, req, lnow, aux, hist, ticks, reqs >>

\* lines 70-120: read the clock and branch; a branch that deletes awaits
\* deleteDeviceCode before it answers
PollCheck(p) ==
  /\ NoneDone
  /\ kind[p] = "poll" /\ pc[p] = "check"
  /\ LET decision == pollStatusDecision(rec[p], now)
     IN  /\ lnow' = [ lnow EXCEPT ![p] = now ]
         /\ IF decision.del
              THEN /\ pc' = [ pc EXCEPT ![p] = "delete" ]
                   /\ resp' = resp
              ELSE Done(p, decision.resp)
  /\ UNCHANGED << given, got, table, now, kind, req, rec, aux, ops, hist, seen, ticks, reqs >>

\* lines 73, 91, 110, 115: deleteDeviceCode, then the response of the branch
PollDelete(p) ==
  /\ NoneDone
  /\ kind[p] = "poll" /\ pc[p] = "delete"
  /\ LET decision == pollStatusDecision(rec[p], lnow[p])
         d == rec[p].deviceCode
     IN  /\ table' = deleteDeviceCode(table, d)
         /\ Done(p, decision.resp)
         /\ Did(p, "delete")
         /\ hist' = IF HasTokens(decision.resp) /\ ~seen[p].stale
                      THEN [ hist EXCEPT ![d].delivered = Bump(@) ]
                      ELSE hist
  /\ UNCHANGED << given, got, now, kind, req, rec, lnow, aux, seen, ticks, reqs >>

(***************************************************************************)
(* authorize: POST /device/authorize (handleDeviceAuthorizeRequest)        *)
(***************************************************************************)
\* lines 50-94: validate the body and verify the access token
StartAuthorize(p) ==
  /\ CanStart(p)
  /\ \E request \in AuthorizeRequests :
       Begin(p, "authorize", request, authorizeValidate(request), "query")
  /\ UNCHANGED << given, got, table, now, rec, lnow, aux, ops, hist, seen, ticks >>

\* line 97: getDeviceCodeByUserCode (Query on the index, Limit 1)
AuthorizeQuery(p) ==
  /\ NoneDone
  /\ kind[p] = "authorize" /\ pc[p] = "query"
  /\ LET items == userCodeIndex(table, normalizeUserCode(req[p].user_code))
     IN  IF items = {}
           THEN /\ Done(p, authorizeDecision(Null, now).resp)
                /\ UNCHANGED << given, got, rec, seen >>
           ELSE \E item \in items :
                  /\ rec' = [ rec EXCEPT ![p] = mapItemToRecord(item).record ]
                  /\ seen' = [ seen EXCEPT ![p] =
                                 [ h     |-> hist[item.deviceCode],
                                   late  |-> now > parseInt(item.expiresAt),
                                   stale |-> FALSE ] ]
                  /\ pc' = [ pc EXCEPT ![p] = "check" ]
                  /\ resp' = resp
  /\ Did(p, "query")
  /\ UNCHANGED << given, got, table, now, kind, req, lnow, aux, hist, ticks, reqs >>

\* lines 104-113: read the clock, check expiry and status
AuthorizeCheck(p) ==
  /\ NoneDone
  /\ kind[p] = "authorize" /\ pc[p] = "check"
  /\ LET decision == authorizeDecision(rec[p], now)
     IN  /\ lnow' = [ lnow EXCEPT ![p] = now ]
         /\ IF decision.go
              THEN /\ pc' = [ pc EXCEPT ![p] = "update" ]
                   /\ resp' = resp
              ELSE Done(p, decision.resp)
  /\ UNCHANGED << given, got, table, now, kind, req, rec, aux, ops, hist, seen, ticks, reqs >>

\* lines 116-137: updateDeviceCodeStatus, then the success response
AuthorizeUpdate(p) ==
  /\ NoneDone
  /\ kind[p] = "authorize" /\ pc[p] = "update"
  /\ LET d == rec[p].deviceCode
     IN  /\ table' = updateDeviceCodeStatus(table, d, "authorized",
                        verify(req[p].access_token), tokensOf(req[p]))
         /\ hist' = IF ~seen[p].stale
                      THEN [ hist EXCEPT ![d].authorized = Bump(@),
                                         ![d].tokens = tokensOf(req[p]) ]
                      ELSE hist
  /\ Done(p, authorizeSuccessResponse)
  /\ Did(p, "update")
  /\ UNCHANGED << given, got, now, kind, req, rec, lnow, aux, seen, ticks, reqs >>

(***************************************************************************)
(* any other method or path (index.ts handler, the fallback)               *)
(***************************************************************************)
StartUnknown(p) ==
  /\ CanStart(p)
  /\ \E event \in UnroutedEvents :
       /\ route(event.method, event.path) = "unknown"
       /\ Begin(p, "unknown", event,
                Return(unknownEndpointResponse(event.method, event.path)), "done")
  /\ UNCHANGED << given, got, table, now, rec, lnow, aux, ops, hist, seen, ticks >>

(***************************************************************************)
(* Environment.                                                            *)
(***************************************************************************)
\* a store command throws (network, throttling): nothing is written and
\* the catch-all of the handler answers
StoreFault(p) ==
  /\ NoneDone
  /\ pc[p] \in { "store", "get", "delete", "query", "update" }
  /\ Done(p, INTERNAL_ERROR)
  /\ Did(p, "fault")
  /\ UNCHANGED << given, got, table, now, kind, req, rec, lnow, aux, hist, seen, ticks, reqs >>

\* the caller has its response; the invocation ends. The invocations in
\* flight keep the lowest slots, so the ones above move down by one.
Vacate(f, p, empty) ==
  [ q \in Procs |-> IF q < p THEN f[q]
                    ELSE IF q + 1 \in Procs THEN f[q + 1]
                    ELSE empty ]

Finish(p) ==
  /\ pc[p] = "done"
  /\ kind' = Vacate(kind, p, "idle")
  /\ pc' = Vacate(pc, p, "idle")
  /\ req' = Vacate(req, p, Null)
  /\ rec' = Vacate(rec, p, Null)
  /\ lnow' = Vacate(lnow, p, NoClock)
  /\ aux' = Vacate(aux, p, << >>)
  /\ resp' = Vacate(resp, p, Null)
  /\ ops' = Vacate(ops, p, << >>)
  /\ seen' = Vacate(seen, p, NoSeen)
  /\ UNCHANGED << given, got, table, now, hist, ticks, reqs >>

\* the wall clock advances
TickSteps == { 1, DEVICE_CODE_EXPIRATION_SECONDS }

Tick ==
  /\ NoneDone
  /\ ticks < MaxTicks
  /\ \E delta \in TickSteps : now' = now + delta
  /\ ticks' = ticks + 1
  /\ UNCHANGED << given, got, table, kind, pc, req, rec, lnow, aux, resp, ops, hist, seen,
                  reqs >>

\* DynamoDB time-to-live on the attribute ttl (timeToLiveAttribute: 'ttl')
TtlSweep ==
  /\ NoneDone
  /\ \E item \in table :
       /\ "ttl" \in DOMAIN item
       /\ parseInt(item.ttl) < now
       /\ table' = table \ { item }
  /\ UNCHANGED << given, got, now, kind, pc, req, rec, lnow, aux, resp, ops, hist, seen,
                  ticks, reqs >>

\* the random bytes drawn in the runs of Spec and SeqSpec: one device code
\* and one user code, so that the requests of a run meet on one record (a
\* second issue finds the key stored); the other device code is polled
\* for and never issued
IssuedDeviceBytes == { [ i \in 1..16 |-> 171 ] }
IssuedUserBytes   == { [ i \in 1..8 |-> 0 ] }

Start(p) ==
  \/ StartIssue(p, IssuedDeviceBytes, IssuedUserBytes)
  \/ StartPoll(p)
  \/ StartAuthorize(p)
  \/ StartUnknown(p)

Step(p) ==
  \/ IssueStore(p)
  \/ PollGet(p) \/ PollCheck(p) \/ PollDelete(p)
  \/ AuthorizeQuery(p) \/ AuthorizeCheck(p) \/ AuthorizeUpdate(p)
  \/ StoreFault(p)
  \/ Finish(p)

Next ==
  \/ \E p \in Procs : Start(p) \/ Step(p)
  \/ Tick
  \/ TtlSweep

Spec == Init /\ [][Next]_vars

\* one request at a time: a request starts only when no other is in flight
Quiet == \A q \in Procs : pc[q] = "idle"

SeqNext ==
  \/ \E p \in Procs : (Quiet /\ Start(p)) \/ Step(p)
  \/ Tick
  \/ TtlSweep

SeqSpec == Init /\ [][SeqNext]_vars

\* issue and authorize, one request at a time, when randomBytes may return
\* any of the device codes: two issue requests draw different device codes
\* and the same user code
CollisionNext ==
  \/ \E p \in Procs :
        \/ Quiet /\ StartIssue(p, DeviceBytes, IssuedUserBytes)
        \/ Quiet /\ StartAuthorize(p)
        \/ IssueStore(p)
        \/ AuthorizeQuery(p) \/ AuthorizeCheck(p) \/ AuthorizeUpdate(p)
        \/ StoreFault(p)
        \/ Finish(p)
  \/ Tick
  \/ TtlSweep

CollisionSpec == Init /\ [][CollisionNext]_vars

\* the poll the device repeats: its device code and its own client_id
DeviceRequest ==
  [ body |-> "json", grant_type |-> GRANT_TYPE,
    device_code |-> generateDeviceCode([ i \in 1..16 |-> 171 ]), client_id |-> "c1" ]

\* the device polls again, as often as it likes, once it has been given
\* its device code and its previous poll was answered
DevicePoll(p) ==
  /\ NoneDone
  /\ pc[p] = "idle"
  /\ \A q \in Procs : q < p => pc[q] # "idle"
  /\ \A q \in Procs : kind[q] # "poll"
  /\ hist[DeviceRequest.device_code].issued
  /\ pollValidate(DeviceRequest).go
  /\ kind' = [ kind EXCEPT ![p] = "poll" ]
  /\ req' = [ req EXCEPT ![p] = DeviceRequest ]
  /\ pc' = [ pc EXCEPT ![p] = "get" ]
  /\ UNCHANGED << given, got, table, now, rec, lnow, aux, resp, ops, hist, seen, ticks, reqs >>

\* the clock passes a whole validity window
WindowTick == Tick /\ now' = now + DEVICE_CODE_EXPIRATION_SECONDS

\* the steps of the handlers when the store does not fail
LiveStep(p) ==
  \/ IssueStore(p)
  \/ PollGet(p) \/ PollCheck(p) \/ PollDelete(p)
  \/ AuthorizeQuery(p) \/ AuthorizeCheck(p) \/ AuthorizeUpdate(p)
  \/ Finish(p)

\* codes are issued before the clock moves, so that the clock can pass the
\* expiresAt of every record
LiveNext ==
  \/ \E p \in Procs :
        \/ ticks = 0 /\ StartIssue(p, IssuedDeviceBytes, IssuedUserBytes)
        \/ StartAuthorize(p)
        \/ DevicePoll(p)
        \/ LiveStep(p)
  \/ WindowTick
  \/ TtlSweep

\* every invocation runs to its response, the device keeps polling and the
\* clock keeps advancing; the time-to-live sweep is under no obligation
LiveSpec ==
  /\ Init
  /\ [][LiveNext]_vars
  /\ \A p \in Procs : SF_vars(LiveStep(p))
  /\ SF_vars(\E p \in Procs : DevicePoll(p))
  /\ SF_vars(WindowTick)

(***************************************************************************)
(* poll and authorize, one request at a time, on a table that holds one    *)
(* record issued at clock 0 in any of the statuses pending, authorized,    *)
(* denied: denied is a value of DeviceCodeStatus that poll handles and     *)
(* that no handler of this service writes.                                 *)
(***************************************************************************)
storedRecord(status) ==
  LET issued == issueRecord([ body |-> "json", client_id |-> "c1", scope |-> "" ],
                            CHOOSE b \in IssuedDeviceBytes : TRUE,
                            CHOOSE b \in IssuedUserBytes : TRUE, 0)
  IN  IF status = "authorized"
        THEN [ issued EXCEPT !.status = status, !.userId = "u1",
                             !.tokens = [ accessToken |-> "at1", idToken |-> "id1",
                                          refreshToken |-> "rt1" ] ]
        ELSE [ issued EXCEPT !.status = status ]

StoredStatuses == { "pending", "authorized", "denied" }

StoredInit ==
  /\ NoInvocation
  /\ \E status \in StoredStatuses :
       LET record == storedRecord(status)
       IN  /\ table = { itemOfRecord(record) }
           /\ hist = [ d \in DeviceCodes |->
                         IF d = record.deviceCode
                           THEN [ issued     |-> TRUE,
                                  authorized |-> IF status = "authorized" THEN 1 ELSE 0,
                                  delivered  |-> 0,
                                  tokens     |-> record.tokens,
                                  expiresAt  |-> record.expiresAt,
                                  clientId   |-> record.clientId ]
                           ELSE NoHist ]
  /\ given = NoGiven
  /\ got = NoGot

StoredNext ==
  \/ \E p \in Procs :
        \/ Quiet /\ StartPoll(p)
        \/ Quiet /\ StartAuthorize(p)
        \/ PollGet(p) \/ PollCheck(p) \/ PollDelete(p)
        \/ AuthorizeQuery(p) \/ AuthorizeCheck(p) \/ AuthorizeUpdate(p)
        \/ StoreFault(p)
        \/ Finish(p)
  \/ Tick
  \/ TtlSweep

StoredSpec == StoredInit /\ [][StoredNext]_vars

(***************************************************************************)
(* The code generator and the validators called on their own: the bytes    *)
(* of crypto.randomBytes and the typed user codes are drawn at the start.  *)
(***************************************************************************)
BYTE_VALUES == 0..255

\* n random bytes; as the seed ranges over the byte values, so does the
\* byte at every position
randomBytes(seed, n) == [ i \in 1..n |-> (seed + 37 * (i - 1)) % 256 ]

\* what a user may type for the code AAA-AAAAA, and other inputs
TypedCodes ==
  { << "A","A","A","-","A","A","A","A","A" >>,
    << "A","A","A","A","A","A","A","A" >>,
    << "a","a","a","a","a","a","a","a" >>,
    << "a","a","-","a","A","a","-","A","a","a" >>,
    << "A","A","A","-","A","A","A","A","0" >>,
    << "a","a","a","a","a","a","a","0" >>,
    << "A","A","A","-","A","A","A","A" >>,
    << "-" >>,
    << >> }

CodeSamples ==
  { [ seed |-> s, a |-> << >>, b |-> << >> ] : s \in BYTE_VALUES }
  \cup { [ seed |-> 0, a |-> x, b |-> y ] : x \in TypedCodes, y \in TypedCodes }

CodeInit ==
  /\ Idle
  /\ given \in CodeSamples
  /\ got = NoGot

CallGenerate ==
  /\ got = NoGot
  /\ got' = [ call       |-> "generate",
              deviceCode |-> generateDeviceCode(randomBytes(given.seed, 16)),
              userCode   |-> generateUserCode(randomBytes(given.seed, 8)) ]
  /\ UNCHANGED << table, now, kind, pc, req, rec, lnow, aux, resp, ops, hist, seen,
                  ticks, reqs, given >>

CallValidate ==
  /\ got = NoGot
  /\ got' = [ call    |-> "validate",
              validA  |-> isValidUserCode(given.a),
              validB  |-> isValidUserCode(given.b),
              normalA |-> normalizeUserCode(given.a),
              normalB |-> normalizeUserCode(given.b) ]
  /\ UNCHANGED << table, now, kind, pc, req, rec, lnow, aux, resp, ops, hist, seen,
                  ticks, reqs, given >>

\* device-authorize.ts lines 45-142 run without interleaving: the response,
\* the record resolved and the table left behind
authorizeOutcome(tbl, request, clock) ==
  LET validation == authorizeValidate(request)
      items    == userCodeIndex(tbl, normalizeUserCode(request.user_code))
      record   == IF items = {} THEN Null
                  ELSE mapItemToRecord(CHOOSE it \in items : TRUE).record
      decision == authorizeDecision(record, clock)
  IN  IF ~validation.go
        THEN [ resp |-> validation.resp, record |-> Null, table |-> tbl ]
      ELSE IF ~decision.go
        THEN [ resp |-> decision.resp, record |-> record, table |-> tbl ]
      ELSE [ resp   |-> authorizeSuccessResponse,
             record |-> record,
             table  |-> updateDeviceCodeStatus(tbl, record.deviceCode, "authorized",
                           verify(request.access_token), tokensOf(request)) ]

\* the table after one issue at clock 0
IssuedTable ==
  { itemOfRecord(issueRecord([ body |-> "json", client_id |-> "c1", scope |-> "" ],
                             CHOOSE b \in IssuedDeviceBytes : TRUE,
                             CHOOSE b \in IssuedUserBytes : TRUE, 0)) }

typedRequest(code) ==
  [ body |-> "json", user_code |-> code, access_token |-> "at1",
    id_token |-> "id1", refresh_token |-> "rt1" ]

CallAuthorize ==
  /\ got = NoGot
  /\ got' = [ call |-> "authorize",
              a    |-> authorizeOutcome(IssuedTable, typedRequest(given.a), 0),
              b    |-> authorizeOutcome(IssuedTable, typedRequest(given.b), 0) ]
  /\ UNCHANGED << table, now, kind, pc, req, rec, lnow, aux, resp, ops, hist, seen,
                  ticks, reqs, given >>

CodeNext == CallGenerate \/ CallValidate \/ CallAuthorize

CodeSpec == CodeInit /\ [][CodeNext]_vars

(***************************************************************************)
(* Vocabulary of the properties.                                           *)
(***************************************************************************)
Answered(p, k) == kind[p] = k /\ pc[p] = "done"

Faulted(p) == "fault" \in Range(ops[p])

ClientMatches(p) == rec[p] # Null /\ rec[p].clientId = req[p].client_id

NOT_FOUND == errorResponse(400, "invalid_grant", "Device code not found")

\* what UpdateItem is claimed to require of the item under the key
Transitionable(tbl, deviceCode, clock) ==
  /\ HasKey(tbl, deviceCode)
  /\ LET item == ItemOf(tbl, deviceCode)
     IN  /\ item.status = "pending"
         /\ "expiresAt" \in DOMAIN item
         /\ clock <= parseInt(item.expiresAt)

(***************************************************************************)
(* C1: the tokens of one record are delivered to at most one poll: of all  *)
(* the polls that read one authorized record, under any interleaving, at   *)
(* most one answers 200 with the tokens.                                   *)
(***************************************************************************)
C1_TokensDeliveredOnce == \A d \in DeviceCodes : hist[d].delivered <= 1

(***************************************************************************)
(* C2: of all the authorize requests for one record, under any             *)
(* interleaving, exactly one answers success; the tokens stored are the    *)
(* winner's and no loser overwrites them.                                  *)
(***************************************************************************)
C2_SingleAuthorizeWinner == \A d \in DeviceCodes : hist[d].authorized <= 1

(***************************************************************************)
(* C3: updateDeviceCodeStatus changes the table only if, at the moment of  *)
(* the write, the item exists, is pending and is not past expiresAt;       *)
(* otherwise the call fails (no success response) and the table is         *)
(* unchanged; in particular it creates no item.                            *)
(***************************************************************************)
C3_TransitionIsConditional ==
  [][ \A p \in Procs :
        ( /\ kind[p] = "authorize" /\ pc[p] = "update" /\ pc'[p] = "done"
          /\ ~Transitionable(table, rec[p].deviceCode, now) )
        => ( table' = table /\ resp'[p].statusCode # 200 ) ]_vars

(***************************************************************************)
(* C4: in a sequential run, before expiresAt: a poll with the right        *)
(* client_id after issue answers authorization_pending; once an authorize  *)
(* for the record answered success, the next poll answers 200 with exactly *)
(* the tokens submitted to that authorize; every poll after that delivery  *)
(* answers invalid_grant (not found).                                      *)
(***************************************************************************)
C4_SequentialFlow ==
  \A p \in Procs :
    ( Answered(p, "poll") /\ ops[p] # << >> /\ ~Faulted(p) /\ seen[p].h.issued ) =>
      LET h == seen[p].h
          rightClient == req[p].client_id = h.clientId
          inTime == now <= h.expiresAt
      IN  /\ ( h.authorized = 0 /\ rightClient /\ inTime ) =>
                 /\ resp[p].statusCode = 400
                 /\ IsError(resp[p], "authorization_pending")
          /\ ( h.authorized >= 1 /\ h.delivered = 0 /\ rightClient /\ inTime ) =>
                 /\ resp[p].statusCode = 200
                 /\ resp[p] = tokenResponse(h.tokens)
          /\ ( h.delivered >= 1 ) => resp[p] = NOT_FOUND

C4_Witness ==
  \E p \in Procs :
    /\ Answered(p, "poll") /\ ~Faulted(p)
    /\ seen[p].h.delivered = 1
    /\ req[p].client_id = seen[p].h.clientId
    /\ now <= seen[p].h.expiresAt

(***************************************************************************)
(* C5: a poll with the right client_id that finds the record past          *)
(* expiresAt never answers with tokens; unless the store fails it answers  *)
(* 400 expired_token, whatever the stored status, and has deleted the      *)
(* record.                                                                 *)
(***************************************************************************)
C5_ExpiredPoll ==
  \A p \in Procs :
    ( /\ Answered(p, "poll") /\ ClientMatches(p)
      /\ lnow[p] # NoClock /\ lnow[p] > rec[p].expiresAt ) =>
      /\ ~HasTokens(resp[p])
      /\ ~Faulted(p) =>
           /\ resp[p] = errorResponse(400, "expired_token", "Device code has expired")
           /\ ops[p] = << "get", "delete" >>
           /\ ~HasKey(table, rec[p].deviceCode)

C5_Witness ==
  \E p \in Procs :
    /\ Answered(p, "poll") /\ ClientMatches(p) /\ ~Faulted(p)
    /\ lnow[p] # NoClock /\ lnow[p] > rec[p].expiresAt
    /\ rec[p].status = "authorized"

(***************************************************************************)
(* C6: an authorize with a valid bearer token whose record is past         *)
(* expiresAt answers 400 expired_token, whatever the stored status, and    *)
(* writes nothing: the record stays as it is in the table.                 *)
(***************************************************************************)
C6_ExpiredAuthorize ==
  \A p \in Procs :
    ( /\ Answered(p, "authorize") /\ rec[p] # Null
      /\ lnow[p] # NoClock /\ lnow[p] > rec[p].expiresAt ) =>
      /\ resp[p] = errorResponse(400, "expired_token", "User code has expired")
      /\ ops[p] = << "query" >>

C6_Witness ==
  \E p \in Procs :
    /\ Answered(p, "authorize") /\ rec[p] # Null
    /\ lnow[p] # NoClock /\ lnow[p] > rec[p].expiresAt
    /\ HasKey(table, rec[p].deviceCode)

(***************************************************************************)
(* C7: the whole response of a poll with a non-matching client_id (status  *)
(* code, error, error_description) is the response of a poll for a device  *)
(* code that has no record.                                                *)
(***************************************************************************)
C7_WrongClientIndistinguishable ==
  \A p \in Procs :
    ( Answered(p, "poll") /\ rec[p] # Null /\ ~ClientMatches(p) ) =>
      resp[p] = NOT_FOUND

(***************************************************************************)
(* C8: a poll whose client_id differs from the record's answers 400        *)
(* invalid_grant without tokens and performs no write, whatever the status *)
(* of the record and also past expiresAt: the table still holds the record *)
(* exactly as the poll read it.                                            *)
(***************************************************************************)
C8_WrongClientFrame ==
  \A p \in Procs :
    ( Answered(p, "poll") /\ rec[p] # Null /\ ~ClientMatches(p) ) =>
      /\ resp[p].statusCode = 400
      /\ IsError(resp[p], "invalid_grant")
      /\ ~HasTokens(resp[p])
      /\ ops[p] = << "get" >>
      /\ getDeviceCodeByDeviceCode(table, req[p].device_code).record = rec[p]

C8_Witness ==
  \E p \in Procs :
    /\ Answered(p, "poll") /\ rec[p] # Null /\ ~ClientMatches(p)
    /\ rec[p].status = "authorized"
    /\ now > rec[p].expiresAt

(***************************************************************************)
(* C9: a poll with the right client_id on a pending record not past        *)
(* expiresAt answers 400 authorization_pending without tokens and performs *)
(* no write.                                                               *)
(***************************************************************************)
C9_PendingPoll ==
  \A p \in Procs :
    ( /\ Answered(p, "poll") /\ ClientMatches(p)
      /\ lnow[p] # NoClock /\ lnow[p] <= rec[p].expiresAt
      /\ rec[p].status = "pending" ) =>
      /\ resp[p].statusCode = 400
      /\ IsError(resp[p], "authorization_pending")
      /\ ~HasTokens(resp[p])
      /\ ops[p] = << "get" >>

C9_Witness ==
  \E p \in Procs :
    /\ Answered(p, "poll") /\ ClientMatches(p)
    /\ lnow[p] = rec[p].expiresAt
    /\ rec[p].status = "pending"
    /\ HasKey(table, rec[p].deviceCode)

(***************************************************************************)
(* C10, as claimed: once the clock exceeds expiresAt, neither lookup       *)
(* returns the record.                                                     *)
(***************************************************************************)
C10_LookupsHideExpired ==
  \A p \in Procs : ( rec[p] # Null /\ kind[p] # "issue" ) => ~seen[p].late

(***************************************************************************)
(* C10, amended: the lookups still return a record past expiresAt, but no  *)
(* request whose lookup returned it past expiresAt answers 200 (tokens or  *)
(* authorize success) or updates it.                                       *)
(***************************************************************************)
C10_ExpiredNeverLive ==
  \A p \in Procs :
    ( pc[p] = "done" /\ rec[p] # Null /\ seen[p].late ) =>
      /\ resp[p].statusCode # 200
      /\ "update" \notin Range(ops[p])

C10_Witness ==
  \E p \in Procs :
    /\ Answered(p, "poll") /\ rec[p] # Null /\ seen[p].late
    /\ rec[p].status = "authorized"
    /\ ClientMatches(p)

(***************************************************************************)
(* C11: in every state of the table no two records not past expiresAt      *)
(* share a deviceCode and no two share a userCode, so that a lookup by      *)
(* user code resolves to one record only.                                   *)
(***************************************************************************)
LiveItems ==
  { it \in table : "expiresAt" \in DOMAIN it /\ now <= parseInt(it.expiresAt) }

C11_CodesUnique ==
  \A a, b \in LiveItems :
    a # b => /\ a.deviceCode # b.deviceCode
             /\ a.userCode # b.userCode

(***************************************************************************)
(* C12: in every state of the table an item carries a userId and a token    *)
(* bundle if and only if its status is authorized (and it never carries     *)
(* one of the two without the other).                                       *)
(***************************************************************************)
C12_TokensIffAuthorized ==
  \A it \in table :
    /\ ( "userId" \in DOMAIN it /\ "tokens" \in DOMAIN it ) <=> it.status = "authorized"
    /\ "userId" \in DOMAIN it <=> "tokens" \in DOMAIN it

C12_Witness ==
  \E it \in table :
    it.status = "authorized" /\ "userId" \in DOMAIN it /\ "tokens" \in DOMAIN it

C14_RetriesOnAlreadyExists ==
  \A p \in Procs :
    ( Answered(p, "issue") /\ "put:exists" \in Range(ops[p]) ) =>
      Len(ops[p]) >= 2

(***************************************************************************)
(* C15: every response of the poll endpoint is 200 with access_token,       *)
(* id_token, refresh_token and token_type Bearer, or 400 with error one of  *)
(* authorization_pending, expired_token, access_denied, invalid_grant,      *)
(* invalid_request, or 500 server_error.                                    *)
(***************************************************************************)
C15_PollResponses ==
  \A p \in Procs :
    Answered(p, "poll") =>
      \/ /\ resp[p].statusCode = 200
         /\ { "access_token", "id_token", "refresh_token", "token_type" }
               \subseteq DOMAIN resp[p].body
         /\ resp[p].body.token_type = "Bearer"
      \/ /\ resp[p].statusCode = 400
         /\ "error" \in DOMAIN resp[p].body
         /\ resp[p].body.error \in { "authorization_pending", "expired_token",
                                     "access_denied", "invalid_grant",
                                     "invalid_request" }
      \/ /\ resp[p].statusCode = 500
         /\ IsError(resp[p], "server_error")

(***************************************************************************)
(* C16: every response the entry point returns, for any method and path,    *)
(* carries the header Cache-Control: no-store.                              *)
(***************************************************************************)
C16_NoStoreEverywhere ==
  \A p \in Procs :
    pc[p] = "done" =>
      /\ "CacheControl" \in DOMAIN resp[p].headers
      /\ resp[p].headers.CacheControl = "no-store"

(***************************************************************************)
(* C17: authorize looks the record up before it verifies the bearer token:  *)
(* a well-formed authorize request whose user code has no record answers    *)
(* 400 invalid_grant (not found), and one whose record is past expiresAt    *)
(* answers 400 expired_token, whether or not the access token is valid.     *)
(* For a request that was answered before any lookup, the records are those *)
(* of the table at the answer.                                              *)
(***************************************************************************)
LookedUp(p) == "query" \in Range(ops[p])

UserCodeUnknown(p) ==
  IF LookedUp(p)
    THEN rec[p] = Null
    ELSE userCodeIndex(table, normalizeUserCode(req[p].user_code)) = {}

UserCodeExpired(p) ==
  IF LookedUp(p)
    THEN rec[p] # Null /\ lnow[p] # NoClock /\ lnow[p] > rec[p].expiresAt
    ELSE LET items == userCodeIndex(table, normalizeUserCode(req[p].user_code))
         IN  items # {} /\ \A it \in items : now > parseInt(it.expiresAt)

C17_LookupBeforeBearer ==
  \A p \in Procs :
    ( Answered(p, "authorize") /\ isValidUserCode(req[p].user_code) /\ ~Faulted(p) ) =>
      /\ UserCodeUnknown(p) =>
           resp[p] = errorResponse(400, "invalid_grant", "User code not found")
      /\ UserCodeExpired(p) =>
           resp[p] = errorResponse(400, "expired_token", "User code has expired")

(***************************************************************************)
(* C18: a well-formed authorize request whose access token fails            *)
(* verification answers 401 invalid_token and has performed no store        *)
(* operation: the record of its user code, if any, is as it was.            *)
(***************************************************************************)
WellFormedAuthorize(request) ==
  /\ isValidUserCode(request.user_code)
  /\ request.access_token # ""
  /\ request.id_token # ""
  /\ request.refresh_token # ""

C18_BadBearer ==
  \A p \in Procs :
    ( /\ Answered(p, "authorize")
      /\ WellFormedAuthorize(req[p])
      /\ verify(req[p].access_token) = "" ) =>
      /\ resp[p] = errorResponse(401, "invalid_token", "Access token is invalid or expired")
      /\ ops[p] = << >>

C18_Witness ==
  \E p \in Procs :
    /\ Answered(p, "authorize")
    /\ WellFormedAuthorize(req[p])
    /\ verify(req[p].access_token) = ""
    /\ \E it \in userCodeIndex(table, normalizeUserCode(req[p].user_code)) :
         it.status = "pending" /\ now <= parseInt(it.expiresAt)

(***************************************************************************)
(* C19: an authorize with a valid bearer token whose lookup returned a      *)
(* record that is not past expiresAt and not pending answers 400            *)
(* invalid_grant and writes nothing; an authorize whose lookup came after   *)
(* an authorize of the record had answered success never updates the        *)
(* record and never answers success.                                        *)
(***************************************************************************)
C19_AlreadyActedOn ==
  \A p \in Procs :
    ( Answered(p, "authorize") /\ rec[p] # Null ) =>
      /\ ( /\ lnow[p] # NoClock /\ lnow[p] <= rec[p].expiresAt
           /\ rec[p].status # "pending" ) =>
             /\ resp[p].statusCode = 400
             /\ IsError(resp[p], "invalid_grant")
             /\ ops[p] = << "query" >>
      /\ seen[p].h.authorized >= 1 =>
             /\ resp[p].statusCode # 200
             /\ "update" \notin Range(ops[p])

C19_Witness ==
  \E p \in Procs :
    /\ Answered(p, "authorize") /\ rec[p] # Null
    /\ lnow[p] # NoClock /\ lnow[p] <= rec[p].expiresAt
    /\ rec[p].status = "authorized"
    /\ seen[p].h.authorized >= 1
    /\ tokensOf(req[p]) # seen[p].h.tokens
    /\ \E it \in table :
         /\ it.deviceCode = rec[p].deviceCode
         /\ "tokens" \in DOMAIN it
         /\ it.tokens = seen[p].h.tokens

(***************************************************************************)
(* C20: a request during which a store operation threw (a fault of the      *)
(* store, a rejected PutItem, an item that cannot be mapped) is answered    *)
(* by the handler, with 500 server_error and the fixed description          *)
(* "Internal server error".                                                 *)
(***************************************************************************)
StoreThrew(p) ==
  \/ Faulted(p)
  \/ "put:exists" \in Range(ops[p])
  \/ "get:threw" \in Range(ops[p])

C20_StoreFaultIs500 ==
  \A p \in Procs :
    ( pc[p] = "done" /\ StoreThrew(p) ) =>
      /\ resp[p].statusCode = 500
      /\ resp[p].headers = NO_STORE_HEADERS
      /\ resp[p].body = [ error |-> "server_error",
                          error_description |-> "Internal server error" ]

C20_Witness ==
  \E p \in Procs :
    /\ Answered(p, "poll")
    /\ ops[p] = << "get", "fault" >>
    /\ rec[p].status = "authorized"

(***************************************************************************)
(* C21: once the device code is issued, a device that keeps polling with    *)
(* it and its own client_id is eventually answered with tokens,             *)
(* expired_token, access_denied or invalid_grant, when the clock keeps      *)
(* advancing and the store does not fail.                                   *)
(***************************************************************************)
TerminalAnswer ==
  \E p \in Procs :
    /\ Answered(p, "poll") /\ req[p] = DeviceRequest
    /\ \/ HasTokens(resp[p])
       \/ IsError(resp[p], "expired_token")
       \/ IsError(resp[p], "access_denied")
       \/ IsError(resp[p], "invalid_grant")

C21_PollingTerminates ==
  hist[DeviceRequest.device_code].issued ~> TerminalAnswer

C22_NormalizedEquivalence ==
  /\ got.call = "validate" =>
        /\ got.normalA = got.normalB => got.validA = got.validB
        /\ normalizeUserCode(got.normalA) = got.normalA
        /\ isValidUserCode(got.normalA) = got.validA
  /\ got.call = "authorize" =>
        /\ normalizeUserCode(given.a) = normalizeUserCode(given.b) => got.a = got.b
        /\ got.a.record # Null =>
              got.a.record.userCode = normalizeUserCode(given.a)
        /\ \A it \in IssuedTable : normalizeUserCode(it.userCode) = it.userCode
  /\ got.call = "generate" =>
        /\ isValidUserCode(got.userCode)
        /\ isValidUserCode(normalizeUserCode(got.userCode))
        /\ normalizeUserCode(got.userCode) # got.userCode

C22_Witness ==
  /\ got.call = "authorize"
  /\ given.a # given.b
  /\ normalizeUserCode(given.a) = normalizeUserCode(given.b)
  /\ got.a.resp.statusCode = 200
  /\ \E c \in Range(given.b) : c \in Range(LOWER)

(***************************************************************************)
(* C24: the store step of an issue request keeps every item of the table    *)
(* as it is; when an item with the generated deviceCode is present the      *)
(* step fails and the table is unchanged.                                   *)
(***************************************************************************)
C24_IssueNeverOverwrites ==
  [][ \A p \in Procs :
        ( kind[p] = "issue" /\ pc[p] = "store" /\ pc'[p] = "done" ) =>
          /\ table \subseteq table'
          /\ HasKey(table, rec[p].deviceCode) =>
                /\ table' = table
                /\ resp'[p].statusCode = 500 ]_vars

C24_Witness ==
  \E p \in Procs :
    /\ Answered(p, "issue")
    /\ "put:exists" \in Range(ops[p])
    /\ \E it \in table :
         /\ it.deviceCode = rec[p].deviceCode
         /\ it.status = "authorized"
         /\ parseInt(it.expiresAt) # rec[p].expiresAt

(***************************************************************************)
(* C25: every item of the table, at any time, has all the attributes issue  *)
(* writes, with clientId and expiresAt as at its creation, interval 5 and   *)
(* ttl = expiresAt + 60; no item is without its expiration attribute.       *)
(***************************************************************************)
C25_RecordsComplete ==
  \A it \in table :
    /\ REQUIRED_ATTRS \subseteq DOMAIN it
    /\ it.clientId = hist[it.deviceCode].clientId
    /\ parseInt(it.expiresAt) = hist[it.deviceCode].expiresAt
    /\ parseInt(it.interval) = 5
    /\ parseInt(it.createdAt) + 600 = parseInt(it.expiresAt)
    /\ parseInt(it.ttl) = parseInt(it.expiresAt) + 60

(***************************************************************************)
(* C26: in every step, the status stored under a device code either stays   *)
(* as it is or changes from pending to authorized; no step sets it back to  *)
(* pending and no step stores denied or expired.                            *)
(***************************************************************************)
C26_StatusOnlyAdvances ==
  [][ /\ \A a \in table, b \in table' :
           ( a.deviceCode = b.deviceCode /\ a.status # b.status ) =>
             ( a.status = "pending" /\ b.status = "authorized" )
      /\ \A b \in table' : b.status \in { "pending", "authorized" } ]_vars

C26_Witness ==
  /\ \E it \in table :
       /\ it.status = "authorized"
       /\ hist[it.deviceCode].authorized = 2
  /\ now > 0

(***************************************************************************)
(* C27: a poll with the right client_id that finds a denied record not      *)
(* past expiresAt answers 400 access_denied without tokens and has deleted  *)
(* the record; a poll that finds no record answers invalid_grant; and when  *)
(* the record is denied it stays denied until it is deleted, no authorize   *)
(* gets to write it, and once deleted it does not come back.                *)
(***************************************************************************)
NoUpdatePending == \A p \in Procs : pc[p] # "update"

C27_DeniedPoll ==
  /\ [] ( \A p \in Procs :
            ( Answered(p, "poll") /\ ~Faulted(p) ) =>
              /\ ( /\ ClientMatches(p)
                   /\ lnow[p] # NoClock /\ lnow[p] <= rec[p].expiresAt
                   /\ rec[p].status = "denied" ) =>
                     /\ resp[p] = errorResponse(400, "access_denied",
                                                "User denied authorization")
                     /\ ~HasTokens(resp[p])
                     /\ ops[p] = << "get", "delete" >>
                     /\ ~HasKey(table, rec[p].deviceCode)
              /\ ( ops[p] = << "get" >> /\ rec[p] = Null ) =>
                     /\ resp[p].statusCode = 400
                     /\ IsError(resp[p], "invalid_grant") )
  /\ ( \E it \in table : it.status = "denied" ) =>
        [] ( NoUpdatePending /\ \A it \in table : it.status = "denied" )
  /\ [][ \A d \in DeviceCodes :
            ( ~HasKey(table, d) /\ NoUpdatePending ) => ~HasKey(table', d) ]_vars

C27_Witness ==
  \E p \in Procs :
    /\ Answered(p, "poll") /\ ~Faulted(p) /\ ClientMatches(p)
    /\ lnow[p] = rec[p].expiresAt
    /\ rec[p].status = "denied"

(***************************************************************************)
(* C28: in the authorized branch of poll the tokens are answered only      *)
(* after the record has been deleted; when the delete fails the answer is   *)
(* 500 server_error without tokens and the store is left as it was, so the  *)
(* authorized record keeps its tokens for a later poll.                     *)
(***************************************************************************)
DeleteReturns(p) == kind[p] = "poll" /\ pc[p] = "delete" /\ pc'[p] = "done"

C28_TokensAfterDelete ==
  /\ [] ( \A p \in Procs :
            ( Answered(p, "poll") /\ HasTokens(resp[p]) ) =>
              /\ ops[p] = << "get", "delete" >>
              /\ rec[p].status = "authorized"
              /\ resp[p] = tokenResponse(rec[p].tokens) )
  /\ [][ \A p \in Procs :
            DeleteReturns(p) =>
              IF "fault" \in Range(ops'[p])
                THEN /\ resp'[p] = errorResponse(500, "server_error",
                                                 "Internal server error")
                     /\ ~HasTokens(resp'[p])
                     /\ table' = table
                ELSE ~HasKey(table', rec[p].deviceCode) ]_vars

C28_Witness ==
  \E p \in Procs :
    /\ Answered(p, "poll") /\ ops[p] = << "get", "fault" >>
    /\ rec[p] # Null /\ rec[p].status = "authorized"
    /\ lnow[p] <= rec[p].expiresAt
    /\ resp[p].statusCode = 500
    /\ \E it \in table :
         /\ it.deviceCode = rec[p].deviceCode
         /\ it.status = "authorized"
         /\ "tokens" \in DOMAIN it /\ it.tokens = rec[p].tokens

(***************************************************************************)
(* C29: the expiry test is strict and the same in poll and authorize.  A   *)
(* poll or an authorize that read a record answers expired_token exactly    *)
(* when its clock is past expiresAt; at the clock value expiresAt a pending *)
(* record polls as authorization_pending, an authorized one delivers its    *)
(* tokens and an authorize of a pending record succeeds; and for every      *)
(* stored record and every clock value around its deadline the two          *)
(* decisions agree on whether the record is expired.                        *)
(***************************************************************************)
ClocksAround(record) ==
  { now, record.expiresAt - 1, record.expiresAt, record.expiresAt + 1 }

pollSaysExpired(record, clock) ==
  pollStatusDecision(record, clock) = pollExpired

authorizeSaysExpired(record, clock) ==
  authorizeDecision(record, clock) =
    Return(errorResponse(400, "expired_token", "User code has expired"))

ReuseNext ==
  \/ \E p \in Procs :
        \/ StartIssue(p, IssuedDeviceBytes, UserBytes)
        \/ StartPoll(p)
        \/ StartAuthorize(p)
        \/ StartUnknown(p)
        \/ Step(p)
  \/ Tick
  \/ TtlSweep

ReuseSpec == Init /\ [][ReuseNext]_vars

\* the tokens attribute of the item under a device code, if any
TokensOn(tbl, deviceCode) ==
  IF HasKey(tbl, deviceCode) /\ "tokens" \in DOMAIN ItemOf(tbl, deviceCode)
    THEN ItemOf(tbl, deviceCode).tokens
    ELSE Null

\* an authorize returns 200 success from its UpdateItem
AuthorizeReturns(p) ==
  /\ kind[p] = "authorize" /\ pc[p] = "update"
  /\ pc'[p] = "done" /\ resp'[p] = authorizeSuccessResponse

(***************************************************************************)
(* C30: the userId and the tokens on an item are those of one authorize    *)
(* request, the userId being the subject of its access token; tokens come  *)
(* onto an item only in the step in which an authorize returns 200 success, *)
(* they are the bundle it submitted, and the user code of the record they   *)
(* are written to is the user code it submitted; and a poll delivers the    *)
(* tokens of the record it read.                                            *)
(***************************************************************************)
C30_TokensOfOneAuthorize ==
  /\ [] ( \A it \in table :
            ( "tokens" \in DOMAIN it \/ "userId" \in DOMAIN it ) =>
              /\ "tokens" \in DOMAIN it /\ "userId" \in DOMAIN it
              /\ it.userId = verify(it.tokens.accessToken) )
  /\ [] ( \A p \in Procs :
            ( Answered(p, "poll") /\ HasTokens(resp[p]) ) =>
              resp[p] = tokenResponse(rec[p].tokens) )
  /\ [][ \A d \in DeviceCodes :
            ( /\ TokensOn(table', d) # Null
              /\ TokensOn(table', d) # TokensOn(table, d) ) =>
              \E p \in Procs :
                /\ AuthorizeReturns(p)
                /\ rec[p].deviceCode = d
                /\ TokensOn(table', d) = tokensOf(req[p])
                /\ ItemOf(table', d).userId = verify(req[p].access_token)
                /\ "userCode" \in DOMAIN ItemOf(table', d) =>
                     ItemOf(table', d).userCode
                       = normalizeUserCode(req[p].user_code) ]_vars

====
